---- MODULE Spec2Model ----
(***************************************************************************)
(* A model of the agent runtime of src/agent.py: the capability registry   *)
(* (load_plugin / execute_plugin), the bounded memory log (add_to_memory / *)
(* get_memory), the conversational, task-queue and retrieval variants and  *)
(* the agent factory.                                                      *)
(*                                                                         *)
(* Python strings that the code inspects (user inputs) are sequences of    *)
(* one-character strings, so that lower(), the "in" substring test,        *)
(* replace() and strip() are computed and not assumed.  Python dicts are   *)
(* TLA+ records (functions on strings), so a key such as "error" can be    *)
(* present or absent.                                                      *)
(***************************************************************************)
EXTENDS Integers, Sequences, FiniteSets, TLC

VARIABLES
    variant,               \* which concrete class the agent is
    config,                \* self.config      (agent.py:19)
    plugins,               \* self.plugins     (agent.py:20)
    memory,                \* self.memory      (agent.py:21)
    conversation_history,  \* ConversationalAgent.conversation_history (agent.py:65)
    task_queue,            \* TaskAgent.task_queue       (agent.py:104)
    completed_tasks,       \* TaskAgent.completed_tasks  (agent.py:105)
    knowledge_base,        \* RetrievalAgent.knowledge_base (agent.py:146)
    appended,              \* history: every entry ever handed to add_to_memory
    last                   \* the call that produced the current state, and its outcome

vars == <<variant, config, plugins, memory, conversation_history,
          task_queue, completed_tasks, knowledge_base, appended, last>>

----------------------------------------------------------------------------
(* Bounds of the model. *)

MaxMemoryConfig == 2     \* configured max_memory ranges over 0..MaxMemoryConfig
MaxLimit == 3            \* explicit get_memory limits range over 0..MaxLimit
MaxWork == 4             \* calls that grow the agent's state are offered this many times
MaxFrameWork == 2        \* the same budget where every call of every variant is offered

(* Program constants. *)

DefaultMaxMemory == 100  \* self.config.get('max_memory', 100)
DefaultLimit == 10       \* get_memory(self, limit: int = 10)

----------------------------------------------------------------------------
(* Python str operations, on sequences of characters. *)

\* The lower-case letter of each upper-case ASCII letter
LowerTable ==
    [A |-> "a", B |-> "b", C |-> "c", D |-> "d", E |-> "e", F |-> "f", G |-> "g",
     H |-> "h", I |-> "i", J |-> "j", K |-> "k", L |-> "l", M |-> "m", N |-> "n",
     O |-> "o", P |-> "p", Q |-> "q", R |-> "r", S |-> "s", T |-> "t", U |-> "u",
     V |-> "v", W |-> "w", X |-> "x", Y |-> "y", Z |-> "z"]

LowerChar(c) == IF c \in DOMAIN LowerTable THEN LowerTable[c] ELSE c

\* str.lower()
Lower(s) == [i \in 1..Len(s) |-> LowerChar(s[i])]

\* sub in s
Contains(sub, s) ==
    \E i \in 0..(Len(s) - Len(sub)) : SubSeq(s, i + 1, i + Len(sub)) = sub

\* s.replace(old, new), old non-empty: non-overlapping occurrences, left to right
RECURSIVE Replace(_, _, _)
Replace(s, old, new) ==
    IF Len(s) < Len(old) THEN s
    ELSE IF SubSeq(s, 1, Len(old)) = old
         THEN new \o Replace(SubSeq(s, Len(old) + 1, Len(s)), old, new)
         ELSE <<Head(s)>> \o Replace(Tail(s), old, new)

IsSpace(c) == c = " "

RECURSIVE LStrip(_)
LStrip(s) == IF s # <<>> /\ IsSpace(Head(s)) THEN LStrip(Tail(s)) ELSE s

RECURSIVE RStrip(_)
RStrip(s) ==
    IF s # <<>> /\ IsSpace(s[Len(s)]) THEN RStrip(SubSeq(s, 1, Len(s) - 1)) ELSE s

\* s.strip()
Strip(s) == RStrip(LStrip(s))

\* s.split(): the maximal runs of non-whitespace characters, in order
RECURSIVE Split(_)
Split(s) ==
    LET t == LStrip(s)
    IN  IF t = <<>> THEN <<>>
        ELSE LET spaces == {i \in DOMAIN t : IsSpace(t[i])}
                 stop == IF spaces = {} THEN Len(t) + 1
                         ELSE CHOOSE i \in spaces : \A j \in spaces : i <= j
             IN  <<SubSeq(t, 1, stop - 1)>> \o Split(SubSeq(t, stop, Len(t)))

\* Python's lst[start:] for any integer start
SliceFrom(lst, start) ==
    LET n == Len(lst)
        from == IF start < 0
                THEN (IF n + start < 0 THEN 0 ELSE n + start)
                ELSE (IF start > n THEN n ELSE start)
    IN  SubSeq(lst, from + 1, n)

----------------------------------------------------------------------------
(* Values. *)

\* Python values are records tagged with their kind, so that any two of
\* them can be compared.
None == [kind |-> "None"]
Bool(b) == [kind |-> "bool", v |-> b]
List(items) == [kind |-> "list", items |-> items]

AgentName == "ConversationalAgent"

\* Outcome of a call or of an expression that may raise.
Returned(v, inv) == [raised |-> FALSE, value |-> v, exc |-> None, invoked |-> inv]
Raised(e, inv)   == [raised |-> TRUE,  value |-> None, exc |-> e, invoked |-> inv]

Exc(type, msg) == [kind |-> "exception", type |-> type, msg |-> msg]

\* str(e)
ExcStr(e) == e.msg

----------------------------------------------------------------------------
(* The plugin namespaces the agent is run against: what importlib finds.   *)
(* Plugins are external collaborators; this is one environment that shows  *)
(* every outcome load_plugin and execute can have.                         *)

PluginNames == {"web_search", "calculator", "broken"}
PluginPaths == {"plugins", "alt"}

\* f"{plugin_name.title().replace('_', '')}Plugin" on the names above
ClassName(plugin_name) ==
    CASE plugin_name = "web_search" -> "WebSearchPlugin"
      [] plugin_name = "calculator" -> "CalculatorPlugin"
      [] plugin_name = "broken"     -> "BrokenPlugin"

\* Is there a module f"{plugin_path}.{plugin_name}"?  There is no alt.calculator.
ModuleExists(plugin_path, plugin_name) ==
    ~(plugin_path = "alt" /\ plugin_name = "calculator")

\* The attributes of that module: alt.broken defines no BrokenPlugin.
ModuleAttrs(plugin_path, plugin_name) ==
    IF plugin_path = "alt" /\ plugin_name = "broken"
    THEN {}
    ELSE {ClassName(plugin_name)}

\* What a class of the namespace is:
\*   "plugin"     a BasePlugin whose execute raises on an empty argument and
\*                returns a result otherwise
\*   "no_execute" a class that is not a BasePlugin and has no execute attribute
\*   "abstract"   a BasePlugin subclass that does not override execute
ClassKind(plugin_path, class_name) ==
    CASE plugin_path = "plugins" /\ class_name = "WebSearchPlugin"  -> "plugin"
      [] plugin_path = "plugins" /\ class_name = "CalculatorPlugin" -> "plugin"
      [] plugin_path = "alt"     /\ class_name = "WebSearchPlugin"  -> "no_execute"
      [] OTHER -> "abstract"

\* importlib.import_module(module_name)
ImportModule(plugin_path, plugin_name) ==
    IF ModuleExists(plugin_path, plugin_name)
    THEN Returned([path |-> plugin_path, name |-> plugin_name], <<>>)
    ELSE Raised(Exc("ModuleNotFoundError", <<plugin_path, plugin_name>>), <<>>)

\* getattr(module, class_name)
GetAttr(module, class_name) ==
    IF class_name \in ModuleAttrs(module.path, module.name)
    THEN Returned([path |-> module.path, class |-> class_name], <<>>)
    ELSE Raised(Exc("AttributeError", <<module.name, class_name>>), <<>>)

\* plugin_class(): ABC refuses to instantiate a class with an abstract execute
Instantiate(plugin_class, gen) ==
    LET kind == ClassKind(plugin_class.path, plugin_class.class)
    IN  IF kind = "abstract"
        THEN Raised(Exc("TypeError", <<"abstract", plugin_class.class>>), <<>>)
        ELSE Returned([kind |-> kind, class |-> plugin_class.class,
                       path |-> plugin_class.path, gen |-> gen], <<>>)

HasExecute(instance) == instance.kind # "no_execute"

\* instance.execute(arg)
Execute(plugin_name, instance, arg) ==
    LET call == <<[name |-> plugin_name, instance |-> instance, arg |-> arg]>>
    IN  IF arg = <<>>
        THEN Raised(Exc("RuntimeError", <<"execute failed", instance.class>>), call)
        ELSE Returned([kind |-> "result", by |-> instance.class, arg |-> arg], call)

\* A capability handed the agent's add_task as its argument calls it once
\* with a follow-up task; any other argument leaves the queue alone.
ENQUEUE == <<"enqueue">>
FollowUp == [type |-> "calculator", data |-> <<"x">>]
Enqueued(instance, arg) == IF arg = ENQUEUE THEN <<FollowUp>> ELSE <<>>

\* The tasks that a sequence of execute calls added to the queue, in order
RECURSIVE QueuedBy(_)
QueuedBy(invoked) ==
    IF invoked = <<>> THEN <<>>
    ELSE Enqueued(Head(invoked).instance, Head(invoked).arg) \o QueuedBy(Tail(invoked))

----------------------------------------------------------------------------
(* BaseAgent *)

\* Generation of the instance load_plugin would create under plugin_name.
NextGen(plugins_, plugin_name) ==
    IF plugin_name \in DOMAIN plugins_ THEN plugins_[plugin_name].gen + 1 ELSE 1

\* self.plugins[plugin_name] = instance
Store(plugins_, plugin_name, instance) ==
    [n \in DOMAIN plugins_ \cup {plugin_name} |->
        IF n = plugin_name THEN instance ELSE plugins_[n]]

\* load_plugin clearing the name before it resolves the class, so that a
\* failed load drops the instance loaded earlier
LoadPluginCall_DropOnFailure(plugins_, plugin_name, plugin_path) ==
    LET module == ImportModule(plugin_path, plugin_name)
        plugin_class == IF module.raised THEN module
                        ELSE GetAttr(module.value, ClassName(plugin_name))
        instance == IF plugin_class.raised THEN plugin_class
                    ELSE Instantiate(plugin_class.value, NextGen(plugins_, plugin_name))
    IN  IF instance.raised
        THEN [plugins |-> [n \in DOMAIN plugins_ \ {plugin_name} |-> plugins_[n]],
              out |-> Returned(Bool(FALSE), <<>>)]
        ELSE [plugins |-> Store(plugins_, plugin_name, instance.value),
              out |-> Returned(Bool(TRUE), <<>>)]

\* load_plugin: the registry after the call and what the call returns
LoadPluginCall(plugins_, plugin_name, plugin_path) ==
    LET module == ImportModule(plugin_path, plugin_name)
        plugin_class == IF module.raised THEN module
                        ELSE GetAttr(module.value, ClassName(plugin_name))
        instance == IF plugin_class.raised THEN plugin_class
                    ELSE Instantiate(plugin_class.value, NextGen(plugins_, plugin_name))
    IN  IF instance.raised
        THEN \* except Exception as e: return False
             [plugins |-> plugins_, out |-> Returned(Bool(FALSE), <<>>)]
        ELSE [plugins |-> Store(plugins_, plugin_name, instance.value),
              out |-> Returned(Bool(TRUE), <<>>)]

\* execute_plugin answering None for a name that is not loaded
ExecutePlugin_Silent(plugins_, plugin_name, arg) ==
    IF plugin_name \in DOMAIN plugins_
    THEN IF HasExecute(plugins_[plugin_name])
         THEN Execute(plugin_name, plugins_[plugin_name], arg)
         ELSE Raised(Exc("AttributeError", <<"execute", plugins_[plugin_name].class>>), <<>>)
    ELSE Returned(None, <<>>)

\* execute_plugin: a registered object without an execute attribute fails the
\* attribute lookup, before anything is called
ExecutePlugin(plugins_, plugin_name, arg) ==
    IF plugin_name \in DOMAIN plugins_
    THEN IF HasExecute(plugins_[plugin_name])
         THEN Execute(plugin_name, plugins_[plugin_name], arg)
         ELSE Raised(Exc("AttributeError", <<"execute", plugins_[plugin_name].class>>), <<>>)
    ELSE Raised(Exc("ValueError", <<"not loaded", plugin_name>>), <<>>)

\* self.config.get('max_memory', 100)
MaxMemory(config_) ==
    IF "max_memory" \in DOMAIN config_ THEN config_.max_memory ELSE DefaultMaxMemory

\* add_to_memory with the bound compared one too high: len(self.memory) > max + 1
AddToMemoryCall_OffByOne(memory_, config_, entry) ==
    LET grown == Append(memory_, entry)
    IN  IF Len(grown) > MaxMemory(config_) + 1 THEN Tail(grown) ELSE grown

\* add_to_memory evicting with pop() instead of pop(0): the newest entry goes
AddToMemoryCall_PopLast(memory_, config_, entry) ==
    LET grown == Append(memory_, entry)
    IN  IF Len(grown) > MaxMemory(config_)
        THEN SubSeq(grown, 1, Len(grown) - 1)
        ELSE grown

\* add_to_memory: the memory after the call
AddToMemoryCall(memory_, config_, entry) ==
    LET grown == Append(memory_, entry)
    IN  IF Len(grown) > MaxMemory(config_) THEN Tail(grown) ELSE grown

\* get_memory: self.memory[-limit:]
GetMemoryCall(memory_, limit) == SliceFrom(memory_, -limit)

----------------------------------------------------------------------------
(* ConversationalAgent *)

SEARCH    == <<"s", "e", "a", "r", "c", "h">>
CALCULATE == <<"c", "a", "l", "c", "u", "l", "a", "t", "e">>
Greetings == { <<"h", "e", "l", "l", "o">>, <<"h", "i">>, <<"h", "e", "y">>,
               <<"g", "r", "e", "e", "t", "i", "n", "g", "s">> }

\* f"Hello! I'm {self.name}. How can I assist you today?"
GreetingResponse(name) == [kind |-> "greeting", name |-> name]
\* "I understand. How else can I help you?"
FallbackResponse == [kind |-> "fallback"]

\* _generate_response routing on the keyword alone, without the
\* "web_search" in self.plugins / "calculator" in self.plugins tests
GenerateResponse_NoMembership(plugins_, name, user_input) ==
    LET user_input_lower == Lower(user_input)
    IN  IF Contains(SEARCH, user_input_lower)
        THEN ExecutePlugin(plugins_, "web_search", Strip(Replace(user_input, SEARCH, <<>>)))
        ELSE IF Contains(CALCULATE, user_input_lower)
        THEN ExecutePlugin(plugins_, "calculator", user_input)
        ELSE IF \E g \in Greetings : Contains(g, user_input_lower)
        THEN Returned(GreetingResponse(name), <<>>)
        ELSE Returned(FallbackResponse, <<>>)

\* _generate_response testing the greeting rule before the two plugin rules
GenerateResponse_GreetingFirst(plugins_, name, user_input) ==
    LET user_input_lower == Lower(user_input)
    IN  IF \E g \in Greetings : Contains(g, user_input_lower)
        THEN Returned(GreetingResponse(name), <<>>)
        ELSE IF Contains(SEARCH, user_input_lower) /\ "web_search" \in DOMAIN plugins_
        THEN ExecutePlugin(plugins_, "web_search", Strip(Replace(user_input, SEARCH, <<>>)))
        ELSE IF Contains(CALCULATE, user_input_lower) /\ "calculator" \in DOMAIN plugins_
        THEN ExecutePlugin(plugins_, "calculator", user_input)
        ELSE Returned(FallbackResponse, <<>>)

\* _generate_response
GenerateResponse(plugins_, name, user_input) ==
    LET user_input_lower == Lower(user_input)
    IN  IF Contains(SEARCH, user_input_lower) /\ "web_search" \in DOMAIN plugins_
        THEN ExecutePlugin(plugins_, "web_search", Strip(Replace(user_input, SEARCH, <<>>)))
        ELSE IF Contains(CALCULATE, user_input_lower) /\ "calculator" \in DOMAIN plugins_
        THEN ExecutePlugin(plugins_, "calculator", user_input)
        ELSE IF \E g \in Greetings : Contains(g, user_input_lower)
        THEN Returned(GreetingResponse(name), <<>>)
        ELSE Returned(FallbackResponse, <<>>)

UserTurn(user_input)    == [role |-> "user", content |-> user_input]
AssistantTurn(response) == [role |-> "assistant", content |-> response]
Exchange(user_input, response) == [user |-> user_input, assistant |-> response]

\* process remembering the lowered input in place of the input
ConvProcessCall_LoweredExchange(plugins_, memory_, config_, history, name, user_input) ==
    LET received == Append(history, UserTurn(user_input))
        response == GenerateResponse(plugins_, name, user_input)
    IN  IF response.raised
        THEN [history |-> received, memory |-> memory_, remembered |-> <<>>,
              out |-> response]
        ELSE [history |-> Append(received, AssistantTurn(response.value)),
              memory |-> AddToMemoryCall(memory_, config_,
                                         Exchange(Lower(user_input), response.value)),
              remembered |-> <<Exchange(Lower(user_input), response.value)>>,
              out |-> response]

\* ConversationalAgent.process: the state it leaves and what it returns or raises.
\* An exception of _generate_response leaves process after the first append.
ConvProcessCall(plugins_, memory_, config_, history, name, user_input) ==
    LET received == Append(history, UserTurn(user_input))
        response == GenerateResponse(plugins_, name, user_input)
    IN  IF response.raised
        THEN [history |-> received, memory |-> memory_, remembered |-> <<>>,
              out |-> response]
        ELSE [history |-> Append(received, AssistantTurn(response.value)),
              memory |-> AddToMemoryCall(memory_, config_,
                                         Exchange(user_input, response.value)),
              remembered |-> <<Exchange(user_input, response.value)>>,
              out |-> response]

----------------------------------------------------------------------------
(* TaskAgent *)

\* d[key] = value on a dict
DictSet(d, key, value) ==
    [k \in DOMAIN d \cup {key} |-> IF k = key THEN value ELSE d[k]]

\* The body of TaskAgent.process up to the end of its try statement: the
\* result dict it has built then, or the exception that escaped the try.
ProcessTask_NoCatch(plugins_, task) ==
    LET task_type == task.type
        task_data == task.data
        result == [task |-> task, status |-> "pending", result |-> None]
    IN  IF task_type \in DOMAIN plugins_
        THEN LET r == ExecutePlugin(plugins_, task_type, task_data)
             IN  IF r.raised
                 THEN r
                 ELSE Returned(DictSet(DictSet(result, "result", r.value),
                                       "status", "completed"), r.invoked)
        ELSE Returned(DictSet(DictSet(result, "status", "failed"),
                              "error", <<"No plugin for task type", task_type>>), <<>>)

\* The same with an except clause that forgets result["error"] = str(e)
ProcessTask_NoError(plugins_, task) ==
    LET task_type == task.type
        task_data == task.data
        result == [task |-> task, status |-> "pending", result |-> None]
    IN  IF task_type \in DOMAIN plugins_
        THEN LET r == ExecutePlugin(plugins_, task_type, task_data)
             IN  IF r.raised
                 THEN Returned(DictSet(result, "status", "failed"), r.invoked)
                 ELSE Returned(DictSet(DictSet(result, "result", r.value),
                                       "status", "completed"), r.invoked)
        ELSE Returned(DictSet(DictSet(result, "status", "failed"),
                              "error", <<"No plugin for task type", task_type>>), <<>>)

\* The same with an else branch that records the error but leaves the status
ProcessTask_PendingOnMissing(plugins_, task) ==
    LET task_type == task.type
        task_data == task.data
        result == [task |-> task, status |-> "pending", result |-> None]
    IN  IF task_type \in DOMAIN plugins_
        THEN LET r == ExecutePlugin(plugins_, task_type, task_data)
             IN  IF r.raised
                 THEN Returned(DictSet(DictSet(result, "status", "failed"),
                                       "error", ExcStr(r.exc)), r.invoked)
                 ELSE Returned(DictSet(DictSet(result, "result", r.value),
                                       "status", "completed"), r.invoked)
        ELSE Returned(DictSet(result, "error",
                              <<"No plugin for task type", task_type>>), <<>>)

\* The body of TaskAgent.process up to the end of its try statement
\* (lines 109-123): the result dict it has built then.  Nothing escapes the
\* try: execute_plugin is its only call, and except Exception catches it.
ProcessTask(plugins_, task) ==
    LET task_type == task.type
        task_data == task.data
        result == [task |-> task, status |-> "pending", result |-> None]
    IN  IF task_type \in DOMAIN plugins_
        THEN LET r == ExecutePlugin(plugins_, task_type, task_data)
             IN  IF r.raised
                 THEN \* except Exception as e
                      Returned(DictSet(DictSet(result, "status", "failed"),
                                       "error", ExcStr(r.exc)), r.invoked)
                 ELSE Returned(DictSet(DictSet(result, "result", r.value),
                                       "status", "completed"), r.invoked)
        ELSE Returned(DictSet(DictSet(result, "status", "failed"),
                              "error", <<"No plugin for task type", task_type>>), <<>>)

\* TaskAgent.process: completed_tasks after the call, and what it returns.
\* An exception leaving the try statement would skip the append.
TaskProcessCall(plugins_, completed, task) ==
    LET p == ProcessTask(plugins_, task)
    IN  IF p.raised
        THEN [completed |-> completed, out |-> p]
        ELSE [completed |-> Append(completed, p.value), out |-> p]

\* process_queue taking tasks with pop() instead of pop(0)
RECURSIVE DrainQueue_PopLast(_, _, _, _, _)
DrainQueue_PopLast(plugins_, queue, completed, results, invoked) ==
    IF queue = <<>>
    THEN [queue |-> queue, completed |-> completed,
          out |-> Returned(List(results), invoked)]
    ELSE LET task == queue[Len(queue)]
             step == TaskProcessCall(plugins_, completed, task)
         IN  IF step.out.raised
             THEN [queue |-> SubSeq(queue, 1, Len(queue) - 1),
                   completed |-> step.completed,
                   out |-> Raised(step.out.exc, invoked \o step.out.invoked)]
             ELSE DrainQueue_PopLast(plugins_, SubSeq(queue, 1, Len(queue) - 1),
                                     step.completed,
                                     Append(results, step.out.value),
                                     invoked \o step.out.invoked)

\* The loop of process_queue: while self.task_queue: pop(0), process, append.
\* An exception of process would leave the loop with the task already popped.
RECURSIVE DrainQueue(_, _, _, _, _)
DrainQueue(plugins_, queue, completed, results, invoked) ==
    IF queue = <<>>
    THEN [queue |-> queue, completed |-> completed,
          out |-> Returned(List(results), invoked)]
    ELSE LET task == Head(queue)
             step == TaskProcessCall(plugins_, completed, task)
         IN  IF step.out.raised
             THEN [queue |-> Tail(queue) \o QueuedBy(step.out.invoked),
                   completed |-> step.completed,
                   out |-> Raised(step.out.exc, invoked \o step.out.invoked)]
             ELSE DrainQueue(plugins_, Tail(queue) \o QueuedBy(step.out.invoked),
                             step.completed,
                             Append(results, step.out.value),
                             invoked \o step.out.invoked)

\* process_queue
ProcessQueueCall(plugins_, queue, completed) ==
    DrainQueue(plugins_, queue, completed, <<>>, <<>>)

----------------------------------------------------------------------------
(* RetrievalAgent *)

\* doc.get("content", "")
DocContent(doc) == IF "content" \in DOMAIN doc THEN doc.content ELSE <<>>

\* any(word in doc.get("content", "").lower() for word in query_lower.split())
DocMatches(doc, query_lower) ==
    LET words == Split(query_lower)
    IN  \E i \in DOMAIN words : Contains(words[i], Lower(DocContent(doc)))

\* Retrieve with the documents' case kept
Retrieve_CaseSensitive(kb, query) ==
    LET words == Split(Lower(query))
        Matches(doc) == \E i \in DOMAIN words : Contains(words[i], DocContent(doc))
    IN  SelectSeq(kb, Matches)

\* _retrieve: the loop over self.knowledge_base, appending each matching doc
Retrieve(kb, query) ==
    LET query_lower == Lower(query)
        Matches(doc) == DocMatches(doc, query_lower)
    IN  SelectSeq(kb, Matches)

Response(query, results) ==
    [query |-> query, results |-> results, count |-> Len(results)]

\* RetrievalAgent.process: the memory it leaves and the response it returns
RetrProcessCall(kb, memory_, config_, query) ==
    LET results == Retrieve(kb, query)
        response == Response(query, results)
    IN  [memory |-> AddToMemoryCall(memory_, config_, response),
         remembered |-> <<response>>,
         out |-> Returned(response, <<>>)]

----------------------------------------------------------------------------
(* create_agent *)

NoClass == "none"

\* agent_types.get(key): the class registered under the key, if any
AgentTypes(key) ==
    CASE key = <<"c", "o", "n", "v", "e", "r", "s", "a", "t", "i", "o", "n", "a", "l">> -> "conversational"
      [] key = <<"t", "a", "s", "k">> -> "task"
      [] key = <<"r", "e", "t", "r", "i", "e", "v", "a", "l">> -> "retrieval"
      [] OTHER -> NoClass

\* create_agent with any tag it does not know giving a ConversationalAgent
AgentClass_Default(agent_type) ==
    IF AgentTypes(Lower(agent_type)) = NoClass THEN "conversational"
    ELSE AgentTypes(Lower(agent_type))

\* agent_class = agent_types.get(agent_type.lower())
AgentClass(agent_type) == AgentTypes(Lower(agent_type))

Agent(class) == [kind |-> "agent", class |-> class]

\* create_agent: the class it instantiates, and what it returns or raises
CreateAgentCall(agent_type) ==
    LET agent_class == AgentClass(agent_type)
    IN  IF agent_class = NoClass
        THEN [class |-> NoClass,
              out |-> Raised(Exc("ValueError", <<"Unknown agent type", agent_type>>), <<>>)]
        ELSE [class |-> agent_class, out |-> Returned(Agent(agent_class), <<>>)]

----------------------------------------------------------------------------
(* Inputs *)

Configs == {<<>>} \cup {[max_memory |-> k] : k \in 0..MaxMemoryConfig}

Entries == {[note |-> "a"], [note |-> "b"]}

Limits == 0..MaxLimit

\* "search hi", "search", "calculate search", "Hey"
UserInputs == { <<"s", "e", "a", "r", "c", "h", " ", "h", "i">>,
                <<"s", "e", "a", "r", "c", "h">>,
                <<"c", "a", "l", "c", "u", "l", "a", "t", "e", " ",
                  "s", "e", "a", "r", "c", "h">>,
                <<"H", "e", "y">> }

PluginArgs == { <<>>, <<"x">> }

Tasks == { [type |-> "web_search", data |-> <<>>],
           [type |-> "web_search", data |-> <<"x">>],
           [type |-> "calculator", data |-> <<"x">>],
           [type |-> "broken",     data |-> <<"x">>] }

\* {"content": "cat sat"}, {"content": "Dog"}, {"title": "t"}
Documents == { [content |-> <<"c", "a", "t", " ", "s", "a", "t">>],
               [content |-> <<"D", "o", "g">>],
               [title |-> <<"t">>] }

DocumentLists == { <<>>,
                   << [content |-> <<"D", "o", "g">>],
                      [content |-> <<"c", "a", "t", " ", "s", "a", "t">>] >> }

\* "cat", "sat cat", "DOG  at", " "
Queries == { <<"c", "a", "t">>,
             <<"s", "a", "t", " ", "c", "a", "t">>,
             <<"D", "O", "G", " ", " ", "a", "t">>,
             <<" ">> }

\* "conversational", "CONVERSATIONAL", "Task", "retrieval", "task ", "unknown", ""
AgentTags == { <<"c", "o", "n", "v", "e", "r", "s", "a", "t", "i", "o", "n", "a", "l">>,
               <<"C", "O", "N", "V", "E", "R", "S", "A", "T", "I", "O", "N", "A", "L">>,
               <<"T", "a", "s", "k">>,
               <<"r", "e", "t", "r", "i", "e", "v", "a", "l">>,
               <<"t", "a", "s", "k", " ">>,
               <<"u", "n", "k", "n", "o", "w", "n">>,
               <<>> }

\* Number of instances created so far for the names now in the registry.
\* Tasks handing the capability the means to add a task
ChainTasks == { [type |-> "web_search", data |-> ENQUEUE] }

RECURSIVE SumGen(_, _)
SumGen(plugins_, names) ==
    IF names = {} THEN 0
    ELSE LET n == CHOOSE x \in names : TRUE
         IN  plugins_[n].gen + SumGen(plugins_, names \ {n})

Call(op, args, out) == [op |-> op, args |-> args, out |-> out]

Turns(history, role) == {i \in DOMAIN history : history[i].role = role}

\* The number of calls so far that grew the agent's state: instances stored,
\* add_to_memory calls from outside ConversationalAgent.process, process
\* calls, tasks taken in, documents added.
Work ==
    SumGen(plugins, DOMAIN plugins)
    + (Len(appended) - Cardinality(Turns(conversation_history, "assistant")))
    + Cardinality(Turns(conversation_history, "user"))
    + Len(task_queue) + Len(completed_tasks)
    + Len(knowledge_base)

----------------------------------------------------------------------------
(* The state machine: one agent, one call per step. *)

Init ==
    /\ variant \in {"conversational", "task", "retrieval"}
    /\ config \in Configs
    /\ plugins = <<>>
    /\ memory = <<>>
    /\ conversation_history = <<>>
    /\ task_queue = <<>>
    /\ completed_tasks = <<>>
    /\ knowledge_base = <<>>
    /\ appended = <<>>
    /\ last = Call("__init__", [variant |-> variant], Returned(None, <<>>))

\* The calls below are made on the agent in hand
HasAgent == variant # NoClass

LoadPlugin ==
    \E plugin_name \in PluginNames, plugin_path \in PluginPaths :
        LET c == LoadPluginCall(plugins, plugin_name, plugin_path)
        IN  /\ HasAgent
            /\ (c.plugins # plugins => Work < MaxWork)
            /\ plugins' = c.plugins
            /\ last' = Call("load_plugin",
                            [plugin_name |-> plugin_name, plugin_path |-> plugin_path],
                            c.out)
            /\ UNCHANGED <<knowledge_base, variant, config, memory, conversation_history,
                           task_queue, completed_tasks, appended>>

ExecutePluginDirect ==
    \E plugin_name \in PluginNames, arg \in PluginArgs :
        /\ HasAgent
        /\ last' = Call("execute_plugin", [plugin_name |-> plugin_name, arg |-> arg],
                        ExecutePlugin(plugins, plugin_name, arg))
        /\ UNCHANGED <<knowledge_base, variant, config, plugins, memory, conversation_history,
                       task_queue, completed_tasks, appended>>

AddToMemory ==
    \E entry \in Entries :
        /\ HasAgent
        /\ Work < MaxWork
        /\ memory' = AddToMemoryCall(memory, config, entry)
        /\ appended' = Append(appended, entry)
        /\ last' = Call("add_to_memory", [entry |-> entry], Returned(None, <<>>))
        /\ UNCHANGED <<knowledge_base, variant, config, plugins, conversation_history,
                       task_queue, completed_tasks>>

GetMemory ==
    \E limit \in Limits \cup {DefaultLimit} :
        /\ HasAgent
        /\ last' = Call("get_memory", [limit |-> limit],
                        Returned(List(GetMemoryCall(memory, limit)), <<>>))
        /\ UNCHANGED <<knowledge_base, variant, config, plugins, memory, conversation_history,
                       task_queue, completed_tasks, appended>>

ConvProcess ==
    \E user_input \in UserInputs :
        LET c == ConvProcessCall(plugins, memory, config, conversation_history,
                                 AgentName, user_input)
        IN  /\ variant = "conversational"
            /\ Work < MaxWork
            /\ conversation_history' = c.history
            /\ memory' = c.memory
            /\ appended' = appended \o c.remembered
            /\ last' = Call("process", [user_input |-> user_input], c.out)
            /\ UNCHANGED <<knowledge_base, variant, config, plugins, task_queue, completed_tasks>>

\* TaskAgent.process dropping from the registry a capability that failed
TaskProcess_EvictsFailing ==
    \E task \in Tasks :
        LET c == TaskProcessCall(plugins, completed_tasks, task)
            evicted == IF c.out.value.status = "failed" THEN {task.type} ELSE {}
        IN  /\ variant = "task"
            /\ Work < MaxWork
            /\ completed_tasks' = c.completed
            /\ task_queue' = task_queue \o QueuedBy(c.out.invoked)
            /\ plugins' = [n \in DOMAIN plugins \ evicted |-> plugins[n]]
            /\ last' = Call("process", [task |-> task], c.out)
            /\ UNCHANGED <<knowledge_base, variant, config, memory, conversation_history,
                           appended>>

TaskProcess ==
    \E task \in Tasks :
        LET c == TaskProcessCall(plugins, completed_tasks, task)
        IN  /\ variant = "task"
            /\ Work < MaxWork
            /\ completed_tasks' = c.completed
            /\ task_queue' = task_queue \o QueuedBy(c.out.invoked)
            /\ last' = Call("process", [task |-> task], c.out)
            /\ UNCHANGED <<knowledge_base, variant, config, plugins, memory, conversation_history,
                           appended>>

AddTask ==
    \E task \in Tasks :
        /\ variant = "task"
        /\ Work < MaxWork
        /\ task_queue' = Append(task_queue, task)
        /\ last' = Call("add_task", [task |-> task], Returned(None, <<>>))
        /\ UNCHANGED <<knowledge_base, variant, config, plugins, memory, conversation_history,
                       completed_tasks, appended>>

\* add_task of a task whose data lets the capability add a follow-up task
AddChainTask ==
    \E task \in ChainTasks :
        /\ variant = "task"
        /\ Work < MaxWork
        /\ task_queue' = Append(task_queue, task)
        /\ last' = Call("add_task", [task |-> task], Returned(None, <<>>))
        /\ UNCHANGED <<knowledge_base, variant, config, plugins, memory, conversation_history,
                       completed_tasks, appended>>

\* process_queue also recording the list of results in the memory log
ProcessQueue_Remembers ==
    LET c == ProcessQueueCall(plugins, task_queue, completed_tasks)
    IN  /\ variant = "task"
        /\ task_queue' = c.queue
        /\ completed_tasks' = c.completed
        /\ memory' = AddToMemoryCall(memory, config, c.out.value)
        /\ last' = Call("process_queue", [queued |-> Len(task_queue)], c.out)
        /\ UNCHANGED <<knowledge_base, variant, config, plugins, conversation_history,
                       appended>>

ProcessQueue ==
    LET c == ProcessQueueCall(plugins, task_queue, completed_tasks)
    IN  /\ variant = "task"
        /\ task_queue' = c.queue
        /\ completed_tasks' = c.completed
        /\ last' = Call("process_queue", [queued |-> Len(task_queue)], c.out)
        /\ UNCHANGED <<knowledge_base, variant, config, plugins, memory, conversation_history,
                       appended>>

RetrProcess ==
    \E query \in Queries :
        LET c == RetrProcessCall(knowledge_base, memory, config, query)
        IN  /\ variant = "retrieval"
            /\ Work < MaxWork
            /\ memory' = c.memory
            /\ appended' = appended \o c.remembered
            /\ last' = Call("process", [query |-> query], c.out)
            /\ UNCHANGED <<knowledge_base, variant, config, plugins,
                           conversation_history, task_queue, completed_tasks>>

AddDocument ==
    \E document \in Documents :
        /\ variant = "retrieval"
        /\ Work < MaxWork
        /\ knowledge_base' = Append(knowledge_base, document)
        /\ last' = Call("add_document", [document |-> document], Returned(None, <<>>))
        /\ UNCHANGED <<variant, config, plugins, memory, conversation_history,
                       task_queue, completed_tasks, appended>>

LoadDocuments ==
    \E documents \in DocumentLists :
        /\ variant = "retrieval"
        /\ Work + Len(documents) <= MaxWork
        /\ knowledge_base' = knowledge_base \o documents
        /\ last' = Call("load_documents", [documents |-> documents],
                        Returned(None, <<>>))
        /\ UNCHANGED <<variant, config, plugins, memory, conversation_history,
                       task_queue, completed_tasks, appended>>

\* create_agent(agent_type, config=config): on success the agent in hand is
\* the new one, freshly constructed; on failure nothing is constructed.
CreateAgent ==
    \E agent_type \in AgentTags, config_ \in Configs :
        LET c == CreateAgentCall(agent_type)
        IN  /\ last' = Call("create_agent",
                            [agent_type |-> agent_type, config |-> config_], c.out)
            /\ IF c.out.raised
               THEN UNCHANGED <<knowledge_base, variant, config, plugins, memory,
                                conversation_history, task_queue, completed_tasks,
                                appended>>
               ELSE /\ variant' = c.class
                    /\ config' = config_
                    /\ plugins' = <<>>
                    /\ memory' = <<>>
                    /\ conversation_history' = <<>>
                    /\ task_queue' = <<>>
                    /\ completed_tasks' = <<>>
                    /\ knowledge_base' = <<>>
                    /\ appended' = <<>>

Next ==
    \/ LoadPlugin
    \/ ExecutePluginDirect
    \/ AddToMemory
    \/ GetMemory
    \/ ConvProcess
    \/ TaskProcess
    \/ AddTask
    \/ AddChainTask
    \/ ProcessQueue
    \/ RetrProcess
    \/ AddDocument
    \/ LoadDocuments
    \/ CreateAgent

Spec == Init /\ [][Next]_vars

(* Restrictions of Spec to the calls one component takes part in. *)

\* The bounded memory log alone
NextMemory == AddToMemory \/ GetMemory
SpecMemory == Init /\ [][NextMemory]_vars

\* The capability registry alone
NextRegistry == LoadPlugin \/ ExecutePluginDirect
SpecRegistry == Init /\ [][NextRegistry]_vars

\* A conversational agent: its registry, its memory and process
InitConv == Init /\ variant = "conversational"
NextConv == LoadPlugin \/ AddToMemory \/ ConvProcess
SpecConv == InitConv /\ [][NextConv]_vars

\* A task agent: its registry, its queue and process
InitTask == Init /\ variant = "task" /\ config = <<>>
NextTask == LoadPlugin \/ AddTask \/ TaskProcess \/ ProcessQueue
SpecTask == InitTask /\ [][NextTask]_vars

\* One agent of any variant under every call it offers, a few calls deep
InitFrame == Init /\ config = <<>>
NextFrame ==
    \/ LoadPlugin /\ Work' <= MaxFrameWork
    \/ ExecutePluginDirect
    \/ AddToMemory /\ Work' <= MaxFrameWork
    \/ GetMemory
    \/ ConvProcess /\ Work' <= MaxFrameWork
    \/ TaskProcess /\ Work' <= MaxFrameWork
    \/ AddTask /\ Work' <= MaxFrameWork
    \/ AddChainTask /\ Work' <= MaxFrameWork
    \/ ProcessQueue /\ Work' <= MaxFrameWork
    \/ RetrProcess /\ Work' <= MaxFrameWork
    \/ AddDocument /\ Work' <= MaxFrameWork
    \/ LoadDocuments /\ Work' <= MaxFrameWork
SpecFrame == InitFrame /\ [][NextFrame]_vars

\* A conversational agent driven through process alone, once its plugins are loaded
NextConvOnly == LoadPlugin \/ ConvProcess
SpecConvOnly == InitConv /\ [][NextConvOnly]_vars

\* A task agent whose capabilities may add tasks while they run
NextReentrant == LoadPlugin \/ AddTask \/ AddChainTask \/ ProcessQueue
SpecReentrant == InitTask /\ [][NextReentrant]_vars

\* A retrieval agent: its knowledge base, its memory and process
InitRetr == Init /\ variant = "retrieval"
NextRetr == AddDocument \/ LoadDocuments \/ RetrProcess
SpecRetr == InitRetr /\ [][NextRetr]_vars

\* The factory: no agent to begin with, then create_agent and the memory
\* calls on the agent it returned
InitFactory ==
    /\ variant = NoClass
    /\ config = <<>>
    /\ plugins = <<>>
    /\ memory = <<>>
    /\ conversation_history = <<>>
    /\ task_queue = <<>>
    /\ completed_tasks = <<>>
    /\ knowledge_base = <<>>
    /\ appended = <<>>
    /\ last = Call("import", [module |-> "agent"], Returned(None, <<>>))
NextFactory == CreateAgent \/ AddToMemory \/ GetMemory
SpecFactory == InitFactory /\ [][NextFactory]_vars

----------------------------------------------------------------------------
(* Properties *)

Min(a, b) == IF a < b THEN a ELSE b

\* The last n entries of a sequence, n <= Len(lst)
LastN(lst, n) == SubSeq(lst, Len(lst) - n + 1, Len(lst))

\* C1: whatever add_to_memory and process calls were made, the memory log
\* never holds more than max_memory entries (100 when not configured).
MemoryBounded == Len(memory) <= MaxMemory(config)

\* C1 witness: entries came both from add_to_memory called directly and from
\* process, more of them than max_memory, and the log is full.
MemoryBoundedWitness ==
    /\ Len(appended) > MaxMemory(config)
    /\ Len(memory) = MaxMemory(config)
    /\ MaxMemory(config) > 0
    /\ \E i \in DOMAIN appended : appended[i] \in Entries
    /\ \E i \in DOMAIN appended : appended[i] \notin Entries

\* C2: once more than max_memory entries have been appended to an initially
\* empty log, the log holds exactly the last max_memory of them, in order;
\* and one append removes at most one entry.
LogKeepsLastEntries ==
    /\ [](Len(appended) > MaxMemory(config)
            => memory = LastN(appended, MaxMemory(config)))
    /\ [][last'.op = "add_to_memory" => Len(memory') >= Len(memory)]_vars

\* C2 witness: more than max_memory appends, with a log of two entries that differ.
LogKeepsLastEntriesWitness ==
    /\ Len(appended) > MaxMemory(config)
    /\ Len(memory) = 2
    /\ memory[1] # memory[2]

\* C3 as stated: get_memory(k), k >= 0, returns the last min(k, m) entries of
\* the log of size m, in order, and leaves the log unchanged.
RecentReturnsLastMin ==
    [][last'.op = "get_memory"
        => LET k == last'.args.limit
           IN  /\ last'.out.value = List(LastN(memory, Min(k, Len(memory))))
               /\ memory' = memory]_vars

IsPrefix(a, b) == Len(a) <= Len(b) /\ SubSeq(b, 1, Len(a)) = a

TaskCall(call) == variant = "task" /\ call.op = "process"
ConvCall(call) == variant = "conversational" /\ call.op = "process"

\* C4: TaskAgent.process never raises: it returns a result dict and appends
\* exactly that dict to completed_tasks, from which nothing is ever removed.
TaskProcessNeverRaises ==
    [][/\ IsPrefix(completed_tasks, completed_tasks')
       /\ TaskCall(last')
            => /\ ~last'.out.raised
               /\ {"task", "status", "result"} \subseteq DOMAIN last'.out.value
               /\ completed_tasks' = Append(completed_tasks, last'.out.value)]_vars

\* C4 witness: process has returned a failed result for a task whose
\* capability was invoked and raised.
TaskProcessNeverRaisesWitness ==
    /\ TaskCall(last)
    /\ ~last.out.raised
    /\ Len(last.out.invoked) = 1
    /\ last.out.value.status = "failed"
    /\ completed_tasks[Len(completed_tasks)] = last.out.value

\* C5: process(task) returns completed with the capability's result exactly
\* when a capability named task.type is loaded and its execute returns; failed
\* with the error message when execute raises; failed with nothing invoked
\* when no capability named task.type is loaded.
TaskProcessOutcome ==
    [][TaskCall(last')
        => LET task == last'.args.task
               r == last'.out.value
               loaded == task.type \in DOMAIN plugins
               runs == loaded /\ HasExecute(plugins[task.type])
               e == Execute(task.type, plugins[task.type], task.data)
           IN  /\ r.task = task
               /\ r.status = "completed" <=> (runs /\ ~e.raised)
               /\ r.status = "completed" => r.result = e.value
               /\ r.status # "completed" => r.status = "failed"
               /\ runs => last'.out.invoked = e.invoked
               /\ (runs /\ e.raised)
                    => "error" \in DOMAIN r /\ r.error = ExcStr(e.exc)
               /\ ~loaded => last'.out.invoked = <<>>]_vars

\* C5 witness: completed_tasks shows all three outcomes.
TaskProcessOutcomeWitness ==
    /\ variant = "task"
    /\ \E i \in DOMAIN completed_tasks : completed_tasks[i].status = "completed"
    /\ \E i \in DOMAIN completed_tasks :
          /\ completed_tasks[i].status = "failed"
          /\ completed_tasks[i].task.type \in DOMAIN plugins
    /\ \E i \in DOMAIN completed_tasks :
          /\ completed_tasks[i].status = "failed"
          /\ completed_tasks[i].task.type \notin DOMAIN plugins

\* C6: process_queue returns, in arrival order, what process produces for
\* each queued task, and leaves the queue empty.
ProcessQueueInOrder ==
    [][last'.op = "process_queue"
        => /\ ~last'.out.raised
           /\ last'.out.value =
                 List([i \in 1..Len(task_queue) |->
                          ProcessTask(plugins, task_queue[i]).value])
           /\ task_queue' = <<>>]_vars

\* C6 witness: a drain of two or more tasks whose first two results differ.
ProcessQueueInOrderWitness ==
    /\ last.op = "process_queue"
    /\ last.args.queued >= 2
    /\ last.out.value.items[1].status # last.out.value.items[2].status
    /\ task_queue = <<>>

\* Does load_plugin(plugin_name, plugin_path) fail to resolve or instantiate?
LoadFails(plugin_name, plugin_path) ==
    \/ ~ModuleExists(plugin_path, plugin_name)
    \/ ClassName(plugin_name) \notin ModuleAttrs(plugin_path, plugin_name)
    \/ ClassKind(plugin_path, ClassName(plugin_name)) = "abstract"

\* C7: load_plugin never raises; a failed load returns False and leaves the
\* registry as it was; True is returned only with a new instance stored
\* under the name.
LoadFailsSoftly ==
    [][last'.op = "load_plugin"
        => LET name == last'.args.plugin_name
               path == last'.args.plugin_path
           IN  /\ ~last'.out.raised
               /\ last'.out.value = Bool(~LoadFails(name, path))
               /\ last'.out.value = Bool(FALSE) => plugins' = plugins
               /\ last'.out.value = Bool(TRUE)
                    => /\ name \in DOMAIN plugins'
                       /\ name \in DOMAIN plugins => plugins'[name] # plugins[name]
                       /\ \A n \in DOMAIN plugins \ {name} :
                             n \in DOMAIN plugins' /\ plugins'[n] = plugins[n]]_vars

\* C7 witness: a load has failed for a name that holds an instance.
LoadFailsSoftlyWitness ==
    /\ last.op = "load_plugin"
    /\ last.out.value = Bool(FALSE)
    /\ last.args.plugin_name \in DOMAIN plugins

NotLoadedError(plugin_name) == Exc("ValueError", <<"not loaded", plugin_name>>)

\* C8: execute_plugin on a name that is not registered fails with the
\* not-loaded error and invokes nothing; on a registered instance it returns
\* or raises what the instance's execute does; the registry is unchanged.
InvokeForwardsOrFails ==
    [][last'.op = "execute_plugin"
        => LET name == last'.args.plugin_name
               out == last'.out
           IN  /\ plugins' = plugins
               /\ name \notin DOMAIN plugins
                    => /\ out.raised
                       /\ out.exc = NotLoadedError(name)
                       /\ out.invoked = <<>>
               /\ name \in DOMAIN plugins
                    => /\ out.exc # NotLoadedError(name)
                       /\ HasExecute(plugins[name])
                            => out = Execute(name, plugins[name], last'.args.arg)]_vars

\* C8 witness: a name that is not registered was invoked on a registry that
\* holds another capability.
InvokeForwardsOrFailsWitness ==
    /\ last.op = "execute_plugin"
    /\ last.args.plugin_name \notin DOMAIN plugins
    /\ plugins # <<>>
    /\ last.out.raised

\* C9 as stated: every ConversationalAgent.process call appends one user turn
\* and then one assistant turn to conversation_history, and one
\* {user, assistant} record to the memory log.
ProcessAppendsOneExchange ==
    [][ConvCall(last')
        => LET n == Len(conversation_history)
               user_input == last'.args.user_input
           IN  /\ Len(conversation_history') = n + 2
               /\ IsPrefix(conversation_history, conversation_history')
               /\ conversation_history'[n + 1] = UserTurn(user_input)
               /\ conversation_history'[n + 2].role = "assistant"
               /\ appended' = Append(appended,
                     Exchange(user_input, conversation_history'[n + 2].content))]_vars

\* C10: ConversationalAgent.process invokes loaded capabilities only and never
\* fails with the not-loaded error; with "search" in the input and web_search
\* not loaded (or "calculate" and calculator) the later rules decide.
ProcessInvokesLoadedOnly ==
    [][ConvCall(last')
        => LET lower == Lower(last'.args.user_input)
               out == last'.out
               names == {out.invoked[i].name : i \in DOMAIN out.invoked}
               searching == Contains(SEARCH, lower)
               calculating == Contains(CALCULATE, lower)
           IN  /\ names \subseteq DOMAIN plugins
               /\ \A n \in PluginNames : out.exc # NotLoadedError(n)
               /\ (searching /\ "web_search" \notin DOMAIN plugins)
                    => /\ ~out.raised \/ "calculator" \in names
                       /\ ~(calculating /\ "calculator" \in DOMAIN plugins)
                            => out.value \in {GreetingResponse(AgentName),
                                              FallbackResponse}
               /\ (calculating /\ "calculator" \notin DOMAIN plugins)
                    => "calculator" \notin names]_vars

\* C10 witness: "search" was in the input while web_search was not loaded and
\* another capability was; the fallback acknowledgment came back.
ProcessInvokesLoadedOnlyWitness ==
    /\ ConvCall(last)
    /\ Contains(SEARCH, Lower(last.args.user_input))
    /\ "web_search" \notin DOMAIN plugins
    /\ plugins # <<>>
    /\ last.out.value = FallbackResponse

RetrCall(call) == variant = "retrieval" /\ call.op = "process"

\* The whitespace-separated tokens of s: its maximal runs without whitespace
Tokens(s) ==
    { SubSeq(s, a, b) : <<a, b>> \in
        { ab \in (DOMAIN s) \X (DOMAIN s) :
            /\ ab[1] <= ab[2]
            /\ \A i \in ab[1]..ab[2] : ~IsSpace(s[i])
            /\ ab[1] = 1 \/ IsSpace(s[ab[1] - 1])
            /\ ab[2] = Len(s) \/ IsSpace(s[ab[2] + 1]) } }

\* Does the document's content contain a token of the query, ignoring case?
TokenHit(doc, query) ==
    /\ "content" \in DOMAIN doc
    /\ \E w \in Tokens(Lower(query)) : Contains(w, Lower(doc.content))

\* The k-th smallest member of a set of positions
Kth(I, k) == CHOOSE i \in I : Cardinality({j \in I : j < i}) = k - 1

\* C11: RetrievalAgent.process(query) returns {query, results, count} where
\* results are, in knowledge-base order and once per entry, the documents
\* whose content contains a token of the query ignoring case, and count is
\* their number; the same object is appended to the memory log, and the
\* knowledge base is unchanged.
RetrievalProcessContract ==
    [][RetrCall(last')
        => LET query == last'.args.query
               r == last'.out.value
               I == {i \in DOMAIN knowledge_base : TokenHit(knowledge_base[i], query)}
           IN  /\ ~last'.out.raised
               /\ DOMAIN r = {"query", "results", "count"}
               /\ r.query = query
               /\ r.count = Len(r.results)
               /\ Len(r.results) = Cardinality(I)
               /\ \A k \in DOMAIN r.results : r.results[k] = knowledge_base[Kth(I, k)]
               /\ appended' = Append(appended, r)
               /\ memory' = LastN(Append(memory, r),
                                  Min(Len(memory) + 1, MaxMemory(config)))
               /\ knowledge_base' = knowledge_base]_vars

\* C11 witness: a query of two tokens in upper case has returned two of three
\* documents, and the result is the newest entry of the memory log.
RetrievalProcessContractWitness ==
    /\ RetrCall(last)
    /\ Len(Split(last.args.query)) = 2
    /\ Len(knowledge_base) = 3
    /\ last.out.value.count = 2
    /\ last.out.value.results[1] # last.out.value.results[2]
    /\ memory # <<>>
    /\ memory[Len(memory)] = last.out.value

\* Are two strings equal once case is ignored?
SameIgnoringCase(a, b) ==
    /\ Len(a) = Len(b)
    /\ \A i \in DOMAIN a : LowerChar(a[i]) = LowerChar(b[i])

\* The variant a tag names, if any
VariantNamed(tag) ==
    IF SameIgnoringCase(tag, <<"c", "o", "n", "v", "e", "r", "s", "a", "t", "i", "o", "n", "a", "l">>)
    THEN "conversational"
    ELSE IF SameIgnoringCase(tag, <<"t", "a", "s", "k">>) THEN "task"
    ELSE IF SameIgnoringCase(tag, <<"r", "e", "t", "r", "i", "e", "v", "a", "l">>)
    THEN "retrieval"
    ELSE "none"

\* C12: create_agent(tag) constructs and returns an agent of the variant the
\* tag names, case ignored; for any other tag it raises the unknown-agent-type
\* error and constructs nothing.
CreateAgentByTag ==
    [][last'.op = "create_agent"
        => LET tag == last'.args.agent_type
               out == last'.out
           IN  IF VariantNamed(tag) # "none"
               THEN /\ ~out.raised
                    /\ out.value = [kind |-> "agent", class |-> VariantNamed(tag)]
                    /\ variant' = VariantNamed(tag)
                    /\ config' = last'.args.config
                    /\ memory' = <<>> /\ plugins' = <<>>
               ELSE /\ out.raised
                    /\ out.exc = Exc("ValueError", <<"Unknown agent type", tag>>)
                    /\ UNCHANGED <<variant, config, plugins, memory,
                                   conversation_history, task_queue,
                                   completed_tasks, knowledge_base>>]_vars

\* C12 witness: a tag written in upper case has produced a ConversationalAgent
\* in place of an agent of another variant.
CreateAgentByTagWitness ==
    /\ last.op = "create_agent"
    /\ last.args.agent_type # Lower(last.args.agent_type)
    /\ ~last.out.raised
    /\ last.out.value.class = "conversational"
    /\ variant = "conversational"

\* C13 as stated: process_queue calls process once for each task that was in
\* the queue when the call began and returns; a task added while the drain
\* runs is left in the queue.
DrainSeesOnlyQueuedAtCall ==
    [][last'.op = "process_queue"
        => /\ Len(last'.out.value.items) = Len(task_queue)
           /\ Len(completed_tasks') = Len(completed_tasks) + Len(task_queue)
           /\ task_queue' = QueuedBy(last'.out.invoked)]_vars

\* C14 as stated: between calls on a ConversationalAgent, conversation_history
\* has even length and alternates user turn, assistant turn, also after a
\* process call whose capability raised.
HistoryInPairs ==
    variant = "conversational"
        => /\ Len(conversation_history) % 2 = 0
           /\ \A i \in DOMAIN conversation_history :
                 conversation_history[i].role =
                     (IF i % 2 = 1 THEN "user" ELSE "assistant")

\* A registered instance on which execute can be called
SatisfiesContract(instance) == HasExecute(instance)

\* C15 as stated: every name in the registry maps to an instance that exposes
\* execute, whatever class load_plugin resolved for the name.
RegistryHoldsCapabilities ==
    \A n \in DOMAIN plugins : SatisfiesContract(plugins[n])

\* The call went to the capability registered under name and to nothing else:
\* it returned that capability's result or raised without a canned reply.
RoutedTo(out, name) ==
    /\ \A i \in DOMAIN out.invoked :
          out.invoked[i].name = name /\ out.invoked[i].instance = plugins[name]
    /\ Len(out.invoked) <= 1
    /\ ~out.raised => Len(out.invoked) = 1 /\ out.value.kind = "result"

\* C16: process takes the first routing rule that holds, in the order
\* "search" with web_search loaded, "calculate" with calculator loaded, a
\* greeting token, fallback; so "search" with a greeting token goes to
\* web_search when it is loaded and gets the greeting with the agent's name
\* when it is not.
RoutingFirstMatch ==
    [][ConvCall(last')
        => LET lower == Lower(last'.args.user_input)
               out == last'.out
               rule1 == Contains(SEARCH, lower) /\ "web_search" \in DOMAIN plugins
               rule2 == Contains(CALCULATE, lower) /\ "calculator" \in DOMAIN plugins
               rule3 == \E g \in Greetings : Contains(g, lower)
           IN  /\ rule1 => RoutedTo(out, "web_search")
               /\ (~rule1 /\ rule2) => RoutedTo(out, "calculator")
               /\ (~rule1 /\ ~rule2 /\ rule3)
                    => out = Returned(GreetingResponse(AgentName), <<>>)
               /\ (~rule1 /\ ~rule2 /\ ~rule3)
                    => out = Returned(FallbackResponse, <<>>)]_vars

\* C16 witness: the same input, with "search" and a greeting token, got the
\* greeting before web_search was loaded and web_search's result after.
RoutingFirstMatchWitness ==
    /\ ConvCall(last)
    /\ Contains(SEARCH, Lower(last.args.user_input))
    /\ \E g \in Greetings : Contains(g, Lower(last.args.user_input))
    /\ "web_search" \in DOMAIN plugins
    /\ ~last.out.raised
    /\ last.out.value.kind = "result"
    /\ \E i \in DOMAIN conversation_history :
          /\ conversation_history[i] = UserTurn(last.args.user_input)
          /\ conversation_history[i + 1] = AssistantTurn(GreetingResponse(AgentName))

\* C18: every entry of completed_tasks has status completed or failed; it
\* carries an error exactly when it is failed, and a failed entry's result is
\* None.
CompletedEntriesSettled ==
    \A i \in DOMAIN completed_tasks :
        LET r == completed_tasks[i]
        IN  /\ r.status \in {"completed", "failed"}
            /\ "error" \in DOMAIN r <=> r.status = "failed"
            /\ r.status = "failed" => r.result = None

\* C18 witness: completed_tasks holds a completed entry with its result, an
\* entry that failed in the capability and one that failed for want of one.
CompletedEntriesSettledWitness ==
    /\ \E i \in DOMAIN completed_tasks :
          /\ completed_tasks[i].status = "completed"
          /\ completed_tasks[i].result # None
    /\ \E i, j \in DOMAIN completed_tasks :
          /\ completed_tasks[i].status = "failed"
          /\ completed_tasks[j].status = "failed"
          /\ completed_tasks[i].error # completed_tasks[j].error
          /\ completed_tasks[i].error[1] = "execute failed"

\* Every process call so far has returned: each user turn got its assistant turn
NoCapabilityFailure ==
    Cardinality(Turns(conversation_history, "user"))
        = Cardinality(Turns(conversation_history, "assistant"))

\* C19: for a ConversationalAgent driven through process alone, with no
\* capability failure, the memory log is, in order, the last
\* min(max_memory, p) exchanges of conversation_history, p being the number of
\* user/assistant pairs: each record holds its pair's two contents.
MemoryMirrorsHistory ==
    (variant = "conversational" /\ NoCapabilityFailure)
        => LET p == Len(conversation_history) \div 2
               k == Min(MaxMemory(config), p)
           IN  /\ Len(memory) = k
               /\ \A j \in 1..k :
                     LET e == p - k + j
                     IN  /\ DOMAIN memory[j] = {"user", "assistant"}
                         /\ memory[j].user = conversation_history[2 * e - 1].content
                         /\ memory[j].assistant = conversation_history[2 * e].content

\* C19 witness: three exchanges, the last answered by a capability, with a
\* log of two that has dropped the first.
MemoryMirrorsHistoryWitness ==
    /\ variant = "conversational"
    /\ NoCapabilityFailure
    /\ Len(conversation_history) = 6
    /\ MaxMemory(config) = 2
    /\ Len(memory) = 2
    /\ memory[1] # memory[2]
    /\ memory[1].user # conversation_history[1].content
    /\ ConvCall(last)
    /\ last.out.invoked # <<>>

\* C17: only load_plugin changes the registry: every other call of every
\* variant leaves the mapping from names to instances as it was, and no call
\* removes a name from it.
RegistryChangedOnlyByLoad ==
    [][/\ last'.op # "load_plugin" => plugins' = plugins
       /\ \A n \in DOMAIN plugins : n \in DOMAIN plugins']_vars

\* C17 witness: a task was processed by a registered capability that raised,
\* and the capability is registered still.
RegistryChangedOnlyByLoadWitness ==
    /\ TaskCall(last)
    /\ last.out.value.status = "failed"
    /\ last.out.invoked # <<>>
    /\ last.args.task.type \in DOMAIN plugins
    /\ plugins[last.args.task.type] = last.out.invoked[1].instance

\* C20: TaskAgent's process, add_task and process_queue leave the memory log
\* as it was, so the log of a TaskAgent is empty until add_to_memory is
\* called on it.
TaskCallsLeaveMemory ==
    /\ [][(variant = "task" /\ last'.op \in {"process", "add_task", "process_queue"})
            => memory' = memory]_vars
    /\ []((variant = "task" /\ appended = <<>>) => memory = <<>>)

\* C20 witness: a drain has completed a task on an agent whose log holds just
\* the entry given to add_to_memory.
TaskCallsLeaveMemoryWitness ==
    /\ variant = "task"
    /\ last.op = "process_queue"
    /\ last.args.queued >= 1
    /\ completed_tasks # <<>>
    /\ Len(memory) = 1
    /\ memory = appended

====
